---- MODULE Spec2Model ----
(***************************************************************************)
(* TileDB-BioImaging: ImageConverter.to_tiledb (ingestion of a multi-level *)
(* image into one TileDB array per level) as a state machine.             *)
(*                                                                         *)
(* Storage is the destination group and its level arrays l_<n>.tdb; a run  *)
(* of to_tiledb walks the level loop, creates and fills the arrays (whole  *)
(* image, tile by tile, or tile by tile on a ThreadPoolExecutor), runs the *)
(* pyramid scaler and writes the group metadata.  A tile read or write may *)
(* raise at any point; the exception leaves to_tiledb through the          *)
(* `with tiledb.open(...)` block, which closes the array handle.           *)
(***************************************************************************)
EXTENDS Integers, Sequences, FiniteSets, TLC

(***************************************************************************)
(* Bounds of the model: the source image and the arguments' ranges.        *)
(***************************************************************************)
LevelCount == 2
\* extents of level 0 of the source image; level n halves X and Y n times
BaseY == 2
BaseX == 5
Channels == 2
\* the caller's tiles={"X": TileX}
TileX == 2
MaxWorkers == 2
\* the longest pyramid_kwargs["scale_factors"]
MaxFactors == 1
\* to_tiledb calls on the destination
MaxCalls == 3
\* images of the single-level specification: extents and tiles up to these
MaxExtent == 3
MaxTile == 2

(***************************************************************************)
(* Program constants.                                                      *)
(***************************************************************************)
\* _DEFAULT_TILES["Y"] and ["X"]
DefaultTile == 1024
\* _DEFAULT_TILES["T"] and ["Z"]
UnitTile == 1
\* _DEFAULT_TILES["C"] = np.inf: larger than every extent
InfTile == 1000000
\* the value of a cell no write has reached
Fill == 0

DimKinds == {"T", "C", "Z", "Y", "X"}
CanonicalOrder == <<"T", "C", "Z", "Y", "X">>

_DEFAULT_TILES == [d \in DimKinds |->
    CASE d = "T" -> UnitTile
      [] d = "C" -> InfTile
      [] d = "Z" -> UnitTile
      [] OTHER   -> DefaultTile]

(***************************************************************************)
(* Arithmetic helpers.                                                     *)
(***************************************************************************)
Min(a, b) == IF a <= b THEN a ELSE b

CeilDiv(a, b) == (a + b - 1) \div b

RECURSIVE Pow2(_)
Pow2(n) == IF n = 0 THEN 1 ELSE 2 * Pow2(n - 1)

RECURSIVE Prod(_)
Prod(s) == IF s = <<>> THEN 1 ELSE s[1] * Prod(Tail(s))

RECURSIVE Coords(_)
\* every index tuple of an array of the given shape (0-based)
Coords(shape) ==
    IF shape = <<>> THEN {<<>>}
    ELSE {<<i>> \o r : i \in 0..(shape[1] - 1), r \in Coords(Tail(shape))}

IndexOf(seq, x) == CHOOSE i \in 1..Len(seq) : seq[i] = x

(***************************************************************************)
(* Axes and AxesMapper (converters/axes.py).                               *)
(***************************************************************************)
\* Axes.canonical: the labels present, in the order T, C, Z, Y, X
canonical(axes) ==
    LET Present(d) == \E i \in 1..Len(axes) : axes[i] = d
    IN  SelectSeq(CanonicalOrder, Present)

\* perm[i] is the position in source of the i-th target label
AxesMapper(source, target) ==
    [source |-> source, target |-> target,
     perm |-> [i \in 1..Len(target) |-> IndexOf(source, target[i])]]

\* mutant: the inverted mapper is the mapper itself
inverted_Same(m) == m

inverted(m) == AxesMapper(m.target, m.source)

map_shape(m, shape) == [i \in 1..Len(shape) |-> shape[m.perm[i]]]

map_tile(m, tile) == [i \in 1..Len(tile) |-> tile[m.perm[i]]]

\* transpose: the cell at target index t is the cell at the source index s
\* with s[perm[i]] = t[i]
map_array(m, image) ==
    LET shape == map_shape(m, image.shape)
        back  == [j \in 1..Len(m.perm) |-> CHOOSE i \in 1..Len(m.perm) : m.perm[i] = j]
    IN  [shape |-> shape,
         data  |-> [t \in Coords(shape) |->
                       image.data[[j \in 1..Len(t) |-> t[back[j]]]]]]

(***************************************************************************)
(* The tile iterator (converters/tiles.py) over a domain: a sequence of    *)
(* dimensions [name, size, tile].  A tile is one <<start, stop>> slice per *)
(* dimension.                                                              *)
(***************************************************************************)
RECURSIVE iter_tiles(_)
iter_tiles(dims) ==
    IF dims = <<>> THEN << <<>> >>
    ELSE LET d    == dims[1]
             n    == CeilDiv(d.size, d.tile)
             rest == iter_tiles(Tail(dims))
             m    == Len(rest)
         IN  [k \in 1..(n * m) |->
                LET i == (k - 1) \div m
                    j == ((k - 1) % m) + 1
                IN  << <<i * d.tile, Min((i + 1) * d.tile, d.size)>> >> \o rest[j]]

RECURSIVE num_tiles(_)
num_tiles(dims) ==
    IF dims = <<>> THEN 1
    ELSE CeilDiv(dims[1].size, dims[1].tile) * num_tiles(Tail(dims))

TileShape(tile) == [i \in 1..Len(tile) |-> tile[i][2] - tile[i][1]]

\* the cells of the domain a tile selects
TileCells(tile) ==
    {[i \in 1..Len(tile) |-> tile[i][1] + l[i]] : l \in Coords(TileShape(tile))}

(***************************************************************************)
(* The reader (ImageReader): pixel values of the source image.             *)
(***************************************************************************)
RECURSIVE Encode(_)
Encode(c) == IF c = <<>> THEN 0 ELSE c[Len(c)] + 10 * Encode(SubSeq(c, 1, Len(c) - 1))

\* the pixel of a level at a source index: distinct per level and index
Pixel(level, c) == 1 + Encode(c) + 1000 * level

\* reader.level_image(level, tile): the sub-image a tuple of slices selects
level_image(level, tile) ==
    LET shape == TileShape(tile)
    IN  [shape |-> shape,
         data  |-> [l \in Coords(shape) |->
                      Pixel(level, [i \in 1..Len(l) |-> tile[i][1] + l[i]])]]

FullTile(shape) == [i \in 1..Len(shape) |-> <<0, shape[i]>>]

(***************************************************************************)
(* Schema policy.                                                          *)
(***************************************************************************)
\* np.min_scalar_type of a non-negative count, as a width in bits
min_scalar_type(n) ==
    IF n < 256 THEN 8
    ELSE IF n < 65536 THEN 16
    ELSE IF n \div 65536 < 65536 THEN 32 ELSE 64

_get_schema(dim_names, dim_shape, max_tiles) ==
    LET dim_dtype == min_scalar_type(Prod(dim_shape))
    IN  [i \in 1..Len(dim_names) |->
            [name  |-> dim_names[i],
             size  |-> dim_shape[i],
             tile  |-> Min(dim_shape[i], max_tiles[dim_names[i]]),
             dtype |-> dim_dtype]]

DimNames(dims) == [i \in 1..Len(dims) |-> dims[i].name]
DimShape(dims) == [i \in 1..Len(dims) |-> dims[i].size]

(***************************************************************************)
(* State.                                                                  *)
(***************************************************************************)
VARIABLES
    reader,       \* the source image: [axes, level_count, base]
    group,        \* the destination group: [exists, hasMeta, axes, levels, members]
    arrays,       \* level -> the array l_<level>.tdb: [exists, dims, cells, meta]
    handle,       \* level -> the write handle `a`: [open, meta]
    tasks,        \* level -> the tile tasks of its ingestion: [workers, st, runs]
    nwrites,      \* level -> cell -> writes that reached the cell
    pc,           \* where the running to_tiledb call stands; "idle" between calls
    args,         \* the arguments of the running call
    level,        \* the loop variable of the level loop and of _scale
    uris,         \* the levels the running call created, in order
    levels_meta,  \* the descriptors the running call collected
    next,         \* index of the tile whose result the result loop waits for
    sidx,         \* index into scaler.level_shapes
    skipped,      \* the levels the running call found converted and skipped
    wroteMeta,    \* the current (or last) call wrote the group metadata
    created,      \* what the current (or last) call created: "group", "array"
    outcome,      \* how the last call ended
    prev,         \* the last call, when it failed with level 0 written and level 1 partial
    resuming,     \* the current (or last) call repeats the arguments of such a call
    ncalls,       \* to_tiledb calls so far
    base_read,    \* _scale: the level opened "r" as `base` for each generated level
    slide,        \* from_tiledb: the TileDBOpenSlide over the stored levels
    level_min,    \* from_tiledb: its level_min argument
    xpc,          \* from_tiledb: where the call stands
    xnext,        \* from_tiledb: index into slide.levels
    writer,       \* from_tiledb: the calls the ImageWriter has received
    G,            \* from_group_uri: the member uris, in the order the group lists them
    group_dirs,   \* from_group_uri: the list of uris
    level_infos,  \* from_group_uri: the LevelInfo list
    opc,          \* from_group_uri: where the call stands
    mapping,      \* AxesMapper under test: [source, target, image, tile]
    mapped        \* its results so far: a sequence of [image, tile]

\* the state of from_tiledb, of from_group_uri and of the mapper under test
outside == <<slide, level_min, xpc, xnext, writer, G, group_dirs, level_infos, opc,
             mapping, mapped>>

vars == <<reader, group, arrays, handle, tasks, nwrites, pc, args, level, uris,
          levels_meta, next, sidx, skipped, wroteMeta, created, outcome, prev,
          resuming, ncalls, base_read, outside>>

storage == <<group, arrays, handle, tasks, nwrites>>

\* every level number an array may get: the source's levels and the generated ones
AllLevels == 0..(LevelCount + MaxFactors - 1)

NoArray == [exists |-> FALSE, dims |-> <<>>, cells |-> <<>>, meta |-> <<>>]
NoHandle == [open |-> FALSE, meta |-> <<>>]
NoPool == [workers |-> 0, st |-> <<>>, runs |-> <<>>]
NoGroup == [exists |-> FALSE, hasMeta |-> FALSE, axes |-> <<>>, levels |-> <<>>,
            members |-> {}]

Args == [level_min : 0..(LevelCount - 1),
         chunked : BOOLEAN,
         max_workers : 0..MaxWorkers,
         preserve_axes : BOOLEAN,
         pixel_depth : {1, 3},
         pyramid : BOOLEAN,
         factors : 0..MaxFactors,
         progressive : {FALSE},
         tiles : {[d \in {"X"} |-> TileX]}]

\* pyramid_kwargs is None, or holds scale_factors of the given length and
\* progressive (False unless given)
ValidArgs == {a \in Args : ~a.pyramid => a.factors = 0}

DefaultArgs == [level_min |-> 0, chunked |-> FALSE, max_workers |-> 0,
                preserve_axes |-> FALSE, pixel_depth |-> 1, pyramid |-> FALSE,
                factors |-> 0, progressive |-> FALSE,
                tiles |-> [d \in {"X"} |-> TileX]]

NoPrev == [partial1 |-> FALSE, args |-> DefaultArgs]

Failed(o) == o \in {"NotImplementedError", "IOError", "UnboundLocalError", "TileDBError"}

\* reader.level_shape(level): X and Y halve from one level to the next
level_shape(r, l) ==
    [i \in 1..Len(r.base) |->
        IF r.axes[i] \in {"X", "Y"} THEN CeilDiv(r.base[i], Pow2(l)) ELSE r.base[i]]

\* every cell of the array holds a written value
Complete(arr) == arr.exists /\ \A c \in DOMAIN arr.cells : arr.cells[c] # Fill

TypeOK ==
    /\ pc \in {"idle", "loop", "whole", "ingest", "scale", "groupmeta"}
    /\ level \in 0..(LevelCount + MaxFactors)
    /\ outcome \in {"none", "running", "ok"} \/ Failed(outcome)
    /\ \A l \in AllLevels : handle[l].open => arrays[l].exists /\ pc \in {"whole", "ingest"}

InitCall ==
    /\ pc = "idle"
    /\ args = DefaultArgs
    /\ level = 0
    /\ uris = <<>>
    /\ levels_meta = <<>>
    /\ next = 1
    /\ sidx = 0
    /\ skipped = {}
    /\ wroteMeta = FALSE
    /\ created = {}
    /\ outcome = "none"
    /\ prev = NoPrev
    /\ resuming = FALSE
    /\ ncalls = 0
    /\ base_read = <<>>

\* no from_tiledb or from_group_uri call is under way, no mapper under test
InitOutside ==
    /\ slide = <<>>
    /\ level_min = 0
    /\ xpc = "idle"
    /\ xnext = 1
    /\ writer = <<>>
    /\ G = <<>>
    /\ group_dirs = <<>>
    /\ level_infos = <<>>
    /\ opc = "idle"
    /\ mapping = <<>>
    /\ mapped = <<>>

Init ==
    /\ reader = [axes |-> <<"Y", "X", "C">>, level_count |-> LevelCount,
                 base |-> <<BaseY, BaseX, Channels>>]
    /\ group = NoGroup
    /\ arrays = [l \in AllLevels |-> NoArray]
    /\ handle = [l \in AllLevels |-> NoHandle]
    /\ tasks = [l \in AllLevels |-> NoPool]
    /\ nwrites = [l \in AllLevels |-> <<>>]
    /\ InitCall
    /\ InitOutside

(***************************************************************************)
(* Helpers of the actions.                                                 *)
(***************************************************************************)
\* max_tiles: the defaults, updated with the caller's tiles, X scaled by the
\* pixel depth
max_tiles(a) ==
    [d \in DimKinds |->
        LET t == IF d \in DOMAIN a.tiles THEN a.tiles[d] ELSE _DEFAULT_TILES[d]
        IN  IF d = "X" THEN t * a.pixel_depth ELSE t]

\* mutant: the loop runs over every source level, pyramid or not
level_max_All(a) == reader.level_count

\* level_max of the level loop
level_max(a) == IF ~a.pyramid THEN reader.level_count ELSE a.level_min + 1

\* mutant: a level counts as converted only when all of its data is written
LevelAlreadyConverted_IfComplete(l) == Complete(arrays[l])

\* tiledb.object_type(uri) == "array": the level has already been converted
LevelAlreadyConverted(l) == arrays[l].exists

\* the branch `if chunked or max_workers`
UseTiles(a) == a.chunked \/ a.max_workers > 0

\* the target axes of a level
target_axes(a) == IF a.preserve_axes THEN reader.axes ELSE canonical(reader.axes)

\* the mapper of the level whose array has the given dimensions
axes_mapper(dims) == AxesMapper(reader.axes, DimNames(dims))

\* the whole-image branch: a[:] = axes_mapper.map_array(reader.level_image(level))
whole_to_tiledb(l) ==
    LET dims == arrays[l].dims
        m    == axes_mapper(dims)
    IN  [tile |-> FullTile(DimShape(dims)),
         image |-> map_array(m, level_image(l, FullTile(level_shape(reader, l))))]

\* mutant: the tile closure assigns the whole image, as the other branch does
tile_to_tiledb_Whole(l, level_tile) == whole_to_tiledb(l)

\* mutant: the image read is written in the source's axis order
tile_to_tiledb_NoTranspose(l, level_tile) ==
    LET m           == axes_mapper(arrays[l].dims)
        source_tile == map_tile(inverted(m), level_tile)
        image       == level_image(l, source_tile)
    IN  [tile |-> level_tile, image |-> image]

\* tile_to_tiledb up to the assignment: the region written and the image
\* assigned to it
tile_to_tiledb(l, level_tile) ==
    LET m           == axes_mapper(arrays[l].dims)
        source_tile == map_tile(inverted(m), level_tile)
        image       == level_image(l, source_tile)
    IN  [tile |-> level_tile, image |-> map_array(m, image)]

\* a[tile] = image is accepted: the region lies in the domain and the image
\* has the region's shape
CanAssign(dims, w) ==
    /\ Len(w.tile) = Len(dims)
    /\ \A i \in 1..Len(dims) :
          0 <= w.tile[i][1] /\ w.tile[i][1] < w.tile[i][2] /\ w.tile[i][2] <= dims[i].size
    /\ w.image.shape = TileShape(w.tile)

\* the cells after a[tile] = image
Assign(cells, w) ==
    [c \in DOMAIN cells |->
        IF c \in TileCells(w.tile)
        THEN w.image.data[[i \in 1..Len(c) |-> c[i] - w.tile[i][1]]]
        ELSE cells[c]]

Counted(counts, w) ==
    [c \in DOMAIN counts |-> IF c \in TileCells(w.tile) THEN counts[c] + 1 ELSE counts[c]]

\* closing a write handle persists the metadata put through it
Closed(arrs, l) ==
    [arrs EXCEPT ![l].meta = IF handle[l].meta # <<>> THEN handle[l].meta ELSE @]

\* mutant: the queued futures are left in the queue
CancelPending_None(st) == st

\* Executor.map's result iterator, left by an exception: the futures not yet
\* started are cancelled
CancelPending(st) == [i \in 1..Len(st) |-> IF st[i] = "pending" THEN "cancelled" ELSE st[i]]

Live(p) == {i \in 1..Len(p.st) : p.st[i] \in {"pending", "running"}}

\* the tasks of a level the result loop has left: only those a worker thread
\* of the pool still holds or may still take are kept
Retire(p) ==
    IF p.workers = 0 \/ Live(p) = {} THEN NoPool
    ELSE [workers |-> p.workers,
          st   |-> [i \in 1..Len(p.st) |-> IF i \in Live(p) THEN p.st[i] ELSE "over"],
          runs |-> [i \in 1..Len(p.st) |-> IF p.st[i] = "running" THEN 1 ELSE 0]]

Running(l) == {i \in 1..Len(tasks[l].st) : tasks[l].st[i] = "running"}

Descriptor(l, dims) == [level |-> l, axes |-> DimNames(dims), shape |-> DimShape(dims)]

\* the call failed with level 0 written by it and level 1 created but partial
PartialAtOne(arrs) ==
    /\ uris = <<0, 1>>
    /\ level = 1
    /\ Complete(arrs[0])
    /\ ~Complete(arrs[1])

\* to_tiledb is left: its locals are gone
Return(result, arrs) ==
    /\ pc' = "idle"
    /\ outcome' = result
    /\ prev' = IF result = "IOError" /\ PartialAtOne(arrs)
               THEN [partial1 |-> TRUE, args |-> args] ELSE NoPrev
    /\ args' = DefaultArgs
    /\ level' = 0
    /\ uris' = <<>>
    /\ levels_meta' = <<>>
    /\ next' = 1
    /\ sidx' = 0
    /\ skipped' = {}

(***************************************************************************)
(* to_tiledb: entry, and the level loop.                                   *)
(***************************************************************************)
\* a converter class without a reader: NotImplementedError before anything
StartNoReader ==
    /\ pc = "idle"
    /\ ncalls < MaxCalls
    /\ ncalls' = ncalls + 1
    /\ outcome' = "NotImplementedError"
    /\ wroteMeta' = FALSE
    /\ created' = {}
    /\ resuming' = FALSE
    /\ prev' = NoPrev
    /\ UNCHANGED <<outside, base_read, reader, storage, pc, args, level, uris, levels_meta, next, sidx,
                   skipped>>

\* group_create unless the group exists, the reader is opened, the loop set up
StartRun(a) ==
    /\ pc = "idle"
    /\ ncalls < MaxCalls
    /\ ncalls' = ncalls + 1
    /\ args' = a
    /\ group' = [group EXCEPT !.exists = TRUE]
    /\ created' = IF group.exists THEN {} ELSE {"group"}
    /\ level' = a.level_min
    /\ uris' = <<>>
    /\ levels_meta' = <<>>
    /\ next' = 1
    /\ sidx' = 0
    /\ skipped' = {}
    /\ wroteMeta' = FALSE
    /\ outcome' = "running"
    /\ resuming' = (prev.partial1 /\ prev.args = a)
    /\ prev' = NoPrev
    /\ pc' = "loop"
    /\ base_read' = <<>>
    /\ UNCHANGED <<outside, reader, arrays, handle, tasks, nwrites>>

InLoop == pc = "loop" /\ level < level_max(args)

\* mutant: a skipped level is described in levels_meta as well
LevelSkip_Described ==
    /\ InLoop
    /\ LevelAlreadyConverted(level)
    /\ level' = level + 1
    /\ skipped' = skipped \cup {level}
    /\ levels_meta' = Append(levels_meta, Descriptor(level, arrays[level].dims))
    /\ UNCHANGED <<outside, base_read, reader, storage, pc, args, uris, next, sidx,
                   wroteMeta, created, outcome, prev, resuming, ncalls>>

\* the level's array exists: continue
LevelSkip ==
    /\ InLoop
    /\ LevelAlreadyConverted(level)
    /\ level' = level + 1
    /\ skipped' = skipped \cup {level}
    /\ UNCHANGED <<outside, base_read, reader, storage, pc, args, uris, levels_meta, next, sidx,
                   wroteMeta, created, outcome, prev, resuming, ncalls>>

\* pixel_depth != 1: raise NotImplementedError
LevelUnsupported ==
    /\ InLoop
    /\ ~LevelAlreadyConverted(level)
    /\ args.pixel_depth # 1
    /\ Return("NotImplementedError", arrays)
    /\ UNCHANGED <<outside, base_read, reader, storage, wroteMeta, created, resuming, ncalls>>

\* the array is created and opened, its metadata put, the tile tasks set up
LevelCreate ==
    /\ InLoop
    /\ ~LevelAlreadyConverted(level)
    /\ args.pixel_depth = 1
    /\ LET source_shape == level_shape(reader, level)
           dim_names    == target_axes(args)
           mapper       == AxesMapper(reader.axes, dim_names)
           dim_shape    == map_shape(mapper, source_shape)
           schema       == _get_schema(dim_names, dim_shape, max_tiles(args))
           n            == Len(iter_tiles(schema))
       IN  /\ arrays' = [arrays EXCEPT ![level] =
                            [exists |-> TRUE, dims |-> schema,
                             cells |-> [c \in Coords(dim_shape) |-> Fill],
                             meta |-> <<>>]]
           /\ uris' = Append(uris, level)
           /\ levels_meta' = Append(levels_meta, Descriptor(level, schema))
           /\ handle' = [handle EXCEPT ![level] = [open |-> TRUE, meta |-> <<level>>]]
           /\ nwrites' = [nwrites EXCEPT ![level] = [c \in Coords(dim_shape) |-> 0]]
           /\ IF UseTiles(args)
              THEN /\ tasks' = [tasks EXCEPT ![level] =
                                  [workers |-> args.max_workers,
                                   st |-> [i \in 1..n |-> "pending"],
                                   runs |-> [i \in 1..n |-> 0]]]
                   /\ pc' = "ingest"
              ELSE /\ tasks' = [tasks EXCEPT ![level] = NoPool]
                   /\ pc' = "whole"
    /\ next' = 1
    /\ created' = created \cup {"array"}
    /\ UNCHANGED <<outside, base_read, reader, group, args, level, sidx, skipped, wroteMeta, outcome, prev,
                   resuming, ncalls>>

\* the loop is over: on to _scale or to the group metadata
LoopEnd ==
    /\ pc = "loop"
    /\ level >= level_max(args)
    /\ pc' = IF args.pyramid THEN "scale" ELSE "groupmeta"
    /\ UNCHANGED <<outside, base_read, reader, storage, args, level, uris, levels_meta, next, sidx,
                   skipped, wroteMeta, created, outcome, prev, resuming, ncalls>>

(***************************************************************************)
(* Filling a level.                                                        *)
(***************************************************************************)
\* image = reader.level_image(level); a[:] = axes_mapper.map_array(image)
WholeIngest(ok) ==
    /\ pc = "whole"
    /\ LET w == whole_to_tiledb(level)
       IN  IF ok /\ CanAssign(arrays[level].dims, w)
           THEN /\ arrays' = Closed([arrays EXCEPT ![level].cells = Assign(@, w)], level)
                /\ nwrites' = [nwrites EXCEPT ![level] = Counted(@, w)]
                /\ level' = level + 1
                /\ pc' = "loop"
                /\ UNCHANGED <<args, uris, levels_meta, next, sidx, skipped, outcome, prev>>
           ELSE /\ arrays' = Closed(arrays, level)
                /\ Return("IOError", arrays')
                /\ UNCHANGED nwrites
    /\ handle' = [handle EXCEPT ![level] = NoHandle]
    /\ UNCHANGED <<outside, base_read, reader, group, tasks, wroteMeta, created, resuming, ncalls>>

\* a worker thread takes the oldest queued tile and reads it from the source
TaskStart(l, i) ==
    /\ tasks[l].workers > 0
    /\ i \in 1..Len(tasks[l].st)
    /\ tasks[l].st[i] = "pending"
    /\ \A j \in 1..(i - 1) : tasks[l].st[j] # "pending"
    /\ Cardinality(Running(l)) < tasks[l].workers
    /\ tasks' = [tasks EXCEPT ![l].st[i] = "running", ![l].runs[i] = @ + 1]
    /\ UNCHANGED <<outside, base_read, reader, group, arrays, handle, nwrites, pc, args, level, uris,
                   levels_meta, next, sidx, skipped, wroteMeta, created, outcome,
                   prev, resuming, ncalls>>

\* the worker assigns the reordered tile, or the read or the write raises; a
\* write through a closed handle raises
TaskFinish(l, i, ok) ==
    /\ tasks[l].workers > 0
    /\ i \in 1..Len(tasks[l].st)
    /\ tasks[l].st[i] = "running"
    /\ LET w == tile_to_tiledb(l, iter_tiles(arrays[l].dims)[i])
           written == ok /\ handle[l].open /\ CanAssign(arrays[l].dims, w)
           p == [tasks[l] EXCEPT !.st[i] = IF written THEN "done" ELSE "failed"]
       IN  /\ tasks' = [tasks EXCEPT ![l] = IF handle[l].open THEN p ELSE Retire(p)]
           /\ IF written
              THEN /\ arrays' = [arrays EXCEPT ![l].cells = Assign(@, w)]
                   /\ nwrites' = [nwrites EXCEPT ![l] = Counted(@, w)]
              ELSE UNCHANGED <<arrays, nwrites>>
    /\ UNCHANGED <<outside, base_read, reader, group, handle, pc, args, level, uris, levels_meta, next,
                   sidx, skipped, wroteMeta, created, outcome, prev, resuming, ncalls>>

\* the result loop receives the next tile's result
PoolResult ==
    /\ pc = "ingest"
    /\ args.max_workers > 0
    /\ next <= Len(tasks[level].st)
    /\ tasks[level].st[next] = "done"
    /\ next' = next + 1
    /\ UNCHANGED <<outside, base_read, reader, storage, pc, args, level, uris, levels_meta, sidx, skipped,
                   wroteMeta, created, outcome, prev, resuming, ncalls>>

\* the result loop receives the next tile's exception: the queued tiles are
\* cancelled, the handle is closed, the exception leaves to_tiledb
PoolRaise ==
    /\ pc = "ingest"
    /\ args.max_workers > 0
    /\ next <= Len(tasks[level].st)
    /\ tasks[level].st[next] = "failed"
    /\ tasks' = [tasks EXCEPT ![level] = Retire([@ EXCEPT !.st = CancelPending(@)])]
    /\ arrays' = Closed(arrays, level)
    /\ handle' = [handle EXCEPT ![level] = NoHandle]
    /\ Return("IOError", arrays')
    /\ UNCHANGED <<outside, base_read, reader, group, nwrites, wroteMeta, created, resuming, ncalls>>

\* without a pool the builtin map runs tile_to_tiledb in the result loop
SeqTile(ok) ==
    /\ pc = "ingest"
    /\ args.max_workers = 0
    /\ next <= Len(tasks[level].st)
    /\ LET w == tile_to_tiledb(level, iter_tiles(arrays[level].dims)[next])
       IN  IF ok /\ CanAssign(arrays[level].dims, w)
           THEN /\ arrays' = [arrays EXCEPT ![level].cells = Assign(@, w)]
                /\ nwrites' = [nwrites EXCEPT ![level] = Counted(@, w)]
                /\ tasks' = [tasks EXCEPT ![level].st[next] = "done",
                                          ![level].runs[next] = @ + 1]
                /\ next' = next + 1
                /\ UNCHANGED <<handle, pc, args, level, uris, levels_meta, sidx,
                               skipped, outcome, prev>>
           ELSE /\ tasks' = [tasks EXCEPT ![level] = NoPool]
                /\ arrays' = Closed(arrays, level)
                /\ handle' = [handle EXCEPT ![level] = NoHandle]
                /\ Return("IOError", arrays')
                /\ UNCHANGED nwrites
    /\ UNCHANGED <<outside, base_read, reader, group, wroteMeta, created, resuming, ncalls>>

\* mutant: the result loop stops one result early
ResultsConsumed_Early == next >= Len(tasks[level].st)

\* mutant: the results of the mapper are never iterated
ResultsConsumed_None == TRUE

\* the result loop has consumed every result
ResultsConsumed == next > Len(tasks[level].st)

\* ex.shutdown() waits for the pool's tiles; the handle is closed; next level
LevelDone ==
    /\ pc = "ingest"
    /\ ResultsConsumed
    /\ args.max_workers > 0 => Live(tasks[level]) = {}
    /\ tasks' = [tasks EXCEPT ![level] = Retire(@)]
    /\ arrays' = Closed(arrays, level)
    /\ handle' = [handle EXCEPT ![level] = NoHandle]
    /\ level' = level + 1
    /\ pc' = "loop"
    /\ UNCHANGED <<outside, base_read, reader, group, nwrites, args, uris, levels_meta, next, sidx, skipped,
                   wroteMeta, created, outcome, prev, resuming, ncalls>>

(***************************************************************************)
(* Pyramid generation (_scale) and the group metadata.                     *)
(***************************************************************************)
\* the j-th scale factor (j from 0): 2, 4, ...
scale_factor(j) == Pow2(j + 1)

\* Scaler.level_shapes[j]: X and Y divided by the factor, rounded up
scaled_shape(dims, j) ==
    [i \in 1..Len(dims) |->
        IF dims[i].name \in {"X", "Y"} THEN CeilDiv(dims[i].size, scale_factor(j))
        ELSE dims[i].size]

\* Scaler.apply: each output cell resampled from the source array at the index
\* scaled by the ratio of the two extents
scaler_apply(base, shape, j) ==
    [c \in Coords(shape) |->
        base.cells[[i \in 1..Len(c) |->
            Min((c[i] * base.dims[i].size) \div shape[i], base.dims[i].size - 1)]]]

\* every requested level was skipped: dim_names and attr_dtype were never bound
ScaleUnbound ==
    /\ pc = "scale"
    /\ uris = <<>>
    /\ Return("UnboundLocalError", arrays)
    /\ UNCHANGED <<outside, base_read, reader, storage, wroteMeta, created, resuming, ncalls>>

ScaleTarget == args.level_min + 1 + sidx

\* tiledb.Array.create on a level that exists raises
ScaleExists ==
    /\ pc = "scale"
    /\ uris # <<>>
    /\ sidx < args.factors
    /\ arrays[ScaleTarget].exists
    /\ Return("TileDBError", arrays)
    /\ UNCHANGED <<outside, base_read, reader, storage, wroteMeta, created, resuming, ncalls>>

\* mutant: the base level is the source of every generated level
scale_base_First(a, us) == us[1]

\* uris[-1] if scaler.progressive else uris[0]
scale_base(a, us) == IF a.progressive THEN us[Len(us)] ELSE us[1]

\* one generated level: created, described, resampled from its source level
ScaleLevel(ok) ==
    /\ pc = "scale"
    /\ uris # <<>>
    /\ sidx < args.factors
    /\ ~arrays[ScaleTarget].exists
    /\ LET l      == ScaleTarget
           first  == arrays[uris[1]]
           src    == scale_base(args, uris)
           names  == DimNames(first.dims)
           shape  == scaled_shape(first.dims, sidx)
           schema == _get_schema(names, shape, max_tiles(args))
           made   == [exists |-> TRUE, dims |-> schema,
                      cells |-> [c \in Coords(shape) |-> Fill], meta |-> <<l>>]
       IN  IF ok
           THEN /\ arrays' = [arrays EXCEPT ![l] =
                                [made EXCEPT !.cells = scaler_apply(arrays[src], shape, sidx)]]
                /\ nwrites' = [nwrites EXCEPT ![l] = [c \in Coords(shape) |-> 1]]
                /\ levels_meta' = Append(levels_meta, Descriptor(l, schema))
                /\ level' = l + 1
                /\ uris' = Append(uris, l)
                /\ sidx' = sidx + 1
                /\ base_read' = Append(base_read, src)
                /\ UNCHANGED <<pc, args, next, skipped, outcome, prev>>
           ELSE /\ arrays' = [arrays EXCEPT ![l] = made]
                /\ nwrites' = [nwrites EXCEPT ![l] = [c \in Coords(shape) |-> 0]]
                /\ Return("IOError", arrays')
                /\ UNCHANGED base_read
    /\ created' = created \cup {"array"}
    /\ UNCHANGED <<outside, reader, group, handle, tasks, wroteMeta, resuming, ncalls>>

ScaleDone ==
    /\ pc = "scale"
    /\ uris # <<>>
    /\ sidx = args.factors
    /\ pc' = "groupmeta"
    /\ UNCHANGED <<outside, base_read, reader, storage, args, level, uris, levels_meta, next, sidx,
                   skipped, wroteMeta, created, outcome, prev, resuming, ncalls>>

\* group.meta.update(..., levels=json.dumps(levels_meta)); group.add per uri
WriteGroupMeta ==
    /\ pc = "groupmeta"
    /\ group' = [exists |-> TRUE, hasMeta |-> TRUE, axes |-> reader.axes,
                 levels |-> levels_meta,
                 members |-> group.members \cup {uris[i] : i \in 1..Len(uris)}]
    /\ wroteMeta' = TRUE
    /\ Return("ok", arrays)
    /\ UNCHANGED <<outside, base_read, reader, arrays, handle, tasks, nwrites, created, resuming, ncalls>>

(***************************************************************************)
(* The specification: to_tiledb calls, one after the other, on one         *)
(* destination; the worker threads of a pool run beside them.              *)
(***************************************************************************)
Next ==
    \/ StartNoReader
    \/ \E a \in ValidArgs : StartRun(a)
    \/ LevelSkip
    \/ LevelUnsupported
    \/ LevelCreate
    \/ LoopEnd
    \/ \E ok \in BOOLEAN : WholeIngest(ok)
    \/ \E l \in AllLevels : \E i \in 1..Len(tasks[l].st) : TaskStart(l, i)
    \/ \E l \in AllLevels : \E i \in 1..Len(tasks[l].st) : \E ok \in BOOLEAN : TaskFinish(l, i, ok)
    \/ PoolResult
    \/ PoolRaise
    \/ \E ok \in BOOLEAN : SeqTile(ok)
    \/ LevelDone
    \/ ScaleUnbound
    \/ ScaleExists
    \/ \E ok \in BOOLEAN : ScaleLevel(ok)
    \/ ScaleDone
    \/ WriteGroupMeta

Spec == Init /\ [][Next]_vars

(***************************************************************************)
(* The ingestion of one level, for every source axis order, image shape,   *)
(* tile sizes and pool size within the bounds: the call has just entered   *)
(* the level loop on a fresh destination.                                  *)
(***************************************************************************)
Labels == {"C", "Y", "X"}

AxisOrders == {ax \in [1..3 -> Labels] : \A i, j \in 1..3 : ax[i] = ax[j] => i = j}

\* the shapes of an image with the given axes: C has Channels entries
BaseShapes(ax) ==
    {sh \in [1..3 -> 1..MaxExtent] : \A i \in 1..3 : ax[i] = "C" => sh[i] = Min(Channels, MaxExtent)}

LevelArgs == [level_min : {0},
              chunked : BOOLEAN,
              max_workers : 0..MaxWorkers,
              preserve_axes : BOOLEAN,
              pixel_depth : {1},
              pyramid : {FALSE},
              factors : {0},
              progressive : {FALSE},
              tiles : {t \in [{"Y", "X"} -> 1..MaxTile] : t["Y"] = MaxTile}]

InitLevel ==
    /\ \E ax \in AxisOrders : \E sh \in BaseShapes(ax) :
          reader = [axes |-> ax, level_count |-> 1, base |-> sh]
    /\ group = [NoGroup EXCEPT !.exists = TRUE]
    /\ arrays = [l \in AllLevels |-> NoArray]
    /\ handle = [l \in AllLevels |-> NoHandle]
    /\ tasks = [l \in AllLevels |-> NoPool]
    /\ nwrites = [l \in AllLevels |-> <<>>]
    /\ pc = "loop"
    /\ args \in LevelArgs
    /\ level = 0
    /\ uris = <<>>
    /\ levels_meta = <<>>
    /\ next = 1
    /\ sidx = 0
    /\ skipped = {}
    /\ wroteMeta = FALSE
    /\ created = {"group"}
    /\ outcome = "running"
    /\ prev = NoPrev
    /\ resuming = FALSE
    /\ ncalls = 1
    /\ base_read = <<>>
    /\ InitOutside

NextLevel ==
    \/ LevelCreate
    \/ LoopEnd
    \/ \E ok \in BOOLEAN : WholeIngest(ok)
    \/ \E i \in 1..Len(tasks[0].st) : TaskStart(0, i)
    \/ \E i \in 1..Len(tasks[0].st) : \E ok \in BOOLEAN : TaskFinish(0, i, ok)
    \/ PoolResult
    \/ PoolRaise
    \/ \E ok \in BOOLEAN : SeqTile(ok)
    \/ LevelDone
    \/ WriteGroupMeta

SpecLevel == InitLevel /\ [][NextLevel]_vars

(***************************************************************************)
(* Pyramid generation on a fresh destination: one source level is          *)
(* converted, then _scale generates a level per scale factor, from the     *)
(* base level or progressively.                                            *)
(***************************************************************************)
\* the longest scale_factors the level numbers of the model have room for
MaxGenerated == LevelCount + MaxFactors - 1

ScaleArgs == [level_min : {0},
              chunked : {FALSE},
              max_workers : {0},
              preserve_axes : BOOLEAN,
              pixel_depth : {1},
              pyramid : {TRUE},
              factors : 0..MaxGenerated,
              progressive : BOOLEAN,
              tiles : {[d \in {"X"} |-> TileX]}]

\* to_tiledb(a) on reader r has just entered the level loop on a fresh
\* destination
EnteredLoop(r, a) ==
    /\ reader = r
    /\ group = [NoGroup EXCEPT !.exists = TRUE]
    /\ arrays = [l \in AllLevels |-> NoArray]
    /\ handle = [l \in AllLevels |-> NoHandle]
    /\ tasks = [l \in AllLevels |-> NoPool]
    /\ nwrites = [l \in AllLevels |-> <<>>]
    /\ pc = "loop"
    /\ args = a
    /\ level = a.level_min
    /\ uris = <<>>
    /\ levels_meta = <<>>
    /\ next = 1
    /\ sidx = 0
    /\ skipped = {}
    /\ wroteMeta = FALSE
    /\ created = {"group"}
    /\ outcome = "running"
    /\ prev = NoPrev
    /\ resuming = FALSE
    /\ ncalls = 1
    /\ base_read = <<>>
    /\ InitOutside

\* the single-level image of the model with the given axis order
ImageOf(ax) ==
    [axes |-> ax, level_count |-> 1,
     base |-> [i \in 1..3 |-> CASE ax[i] = "Y" -> BaseY
                                [] ax[i] = "X" -> BaseX
                                [] OTHER -> Channels]]

InitScale == \E ax \in AxisOrders : \E a \in ScaleArgs : EnteredLoop(ImageOf(ax), a)

NextScale ==
    \/ LevelCreate
    \/ \E ok \in BOOLEAN : WholeIngest(ok)
    \/ LoopEnd
    \/ \E ok \in BOOLEAN : ScaleLevel(ok)
    \/ ScaleDone
    \/ WriteGroupMeta

SpecScale == InitScale /\ [][NextScale]_vars

(***************************************************************************)
(* Schema generation for images whose cell counts lie around the limit of  *)
(* the narrowest index type.                                               *)
(***************************************************************************)
\* extents around Side: Side * Side cells are one more than 8 bits index
Side == 16

SchemaExtents == {1, Side - 1, Side, Side + 1}

SchemaReaders ==
    {[axes |-> ax, level_count |-> 1, base |-> sh] :
        ax \in {<<"Y", "X", "C">>, <<"C", "Y", "X">>},
        sh \in {t \in [1..3 -> SchemaExtents] : \E i \in 1..3 : t[i] = 1}}

SchemaArgs == {a \in LevelArgs : ~a.chunked /\ a.max_workers = 0 /\ a.tiles["X"] = MaxTile}

InitSchema == \E r \in SchemaReaders : \E a \in SchemaArgs : EnteredLoop(r, a)

NextSchema ==
    \/ LevelCreate
    \/ \E ok \in BOOLEAN : WholeIngest(ok)
    \/ LoopEnd
    \/ WriteGroupMeta

SpecSchema == InitSchema /\ [][NextSchema]_vars

(***************************************************************************)
(* The AxesMapper on its own: an array and a tile are mapped from the      *)
(* source axes to the target axes and back with the inverted mapper, for   *)
(* every pair of orders of the same labels.                                *)
(***************************************************************************)
\* the ranks of the arrays mapped
MinRank == 2
MaxRank == 5
\* the extents of the arrays mapped
MaxSide == 2

\* the labels of a rank: the last ones of T, C, Z, Y, X
RankLabels(r) ==
    LET n == Len(CanonicalOrder)
    IN  {CanonicalOrder[i] : i \in (n - Min(r, n) + 1)..n}

Orders(S) ==
    {ax \in [1..Cardinality(S) -> S] :
        \A i, j \in 1..Cardinality(S) : ax[i] = ax[j] => i = j}

\* the shapes of a rank: extents alternating between 1 and MaxSide, or all
\* MaxSide
RankShapes(r) ==
    {[i \in 1..r |-> IF (i + k) % 2 = 0 THEN MaxSide ELSE 1] : k \in 0..1}
        \cup {[i \in 1..r |-> MaxSide]}

\* an array all of whose cells differ, and a tile with a different slice per axis
InitAxes ==
    /\ reader = [axes |-> <<"Y", "X", "C">>, level_count |-> LevelCount,
                 base |-> <<BaseY, BaseX, Channels>>]
    /\ group = NoGroup
    /\ arrays = [l \in AllLevels |-> NoArray]
    /\ handle = [l \in AllLevels |-> NoHandle]
    /\ tasks = [l \in AllLevels |-> NoPool]
    /\ nwrites = [l \in AllLevels |-> <<>>]
    /\ InitCall
    /\ slide = <<>>
    /\ level_min = 0
    /\ xpc = "idle"
    /\ xnext = 1
    /\ writer = <<>>
    /\ G = <<>>
    /\ group_dirs = <<>>
    /\ level_infos = <<>>
    /\ opc = "idle"
    /\ \E r \in MinRank..Min(MaxRank, Len(CanonicalOrder)) :
       \E source \in Orders(RankLabels(r)) : \E target \in Orders(RankLabels(r)) :
       \E shape \in RankShapes(r) :
          mapping = [source |-> source, target |-> target,
                     image |-> level_image(0, FullTile(shape)),
                     tile |-> [i \in 1..r |-> <<i, i + shape[i]>>]]
    /\ mapped = <<>>

\* everything but the mapper under test
ingestion == <<reader, group, arrays, handle, tasks, nwrites, pc, args, level, uris,
               levels_meta, next, sidx, skipped, wroteMeta, created, outcome, prev,
               resuming, ncalls, base_read>>

\* axes_mapper.map_array(image), axes_mapper.map_tile(tile)
MapForward ==
    /\ mapped = <<>>
    /\ LET m == AxesMapper(mapping.source, mapping.target)
       IN  mapped' = <<[image |-> map_array(m, mapping.image),
                        tile |-> map_tile(m, mapping.tile)]>>
    /\ UNCHANGED <<ingestion, slide, level_min, xpc, xnext, writer, G, group_dirs,
                   level_infos, opc, mapping>>

\* the same with axes_mapper.inverted, on the results of the forward mapping
MapBack ==
    /\ Len(mapped) = 1
    /\ LET m == inverted(AxesMapper(mapping.source, mapping.target))
       IN  mapped' = Append(mapped, [image |-> map_array(m, mapped[1].image),
                                     tile |-> map_tile(m, mapped[1].tile)])
    /\ UNCHANGED <<ingestion, slide, level_min, xpc, xnext, writer, G, group_dirs,
                   level_infos, opc, mapping>>

NextAxes == MapForward \/ MapBack

SpecAxes == InitAxes /\ [][NextAxes]_vars

(***************************************************************************)
(* Export: ImageConverter.from_tiledb on a group that to_tiledb has        *)
(* filled, with an ImageWriter that records the calls it receives.         *)
(***************************************************************************)
\* the array a complete ingestion of level l leaves
Ingested(r, preserve, l) ==
    LET names  == IF preserve THEN r.axes ELSE canonical(r.axes)
        m      == AxesMapper(r.axes, names)
        source == level_image(l, FullTile(level_shape(r, l)))
        image  == map_array(m, source)
    IN  [exists |-> TRUE,
         dims   |-> _get_schema(names, image.shape, max_tiles(DefaultArgs)),
         cells  |-> image.data,
         meta   |-> <<l>>]

\* the group after to_tiledb(level_min=first, preserve_axes=preserve)
Converted(r, preserve, first) ==
    /\ reader = r
    /\ arrays = [l \in AllLevels |->
                    IF l \in first..(r.level_count - 1) THEN Ingested(r, preserve, l)
                    ELSE NoArray]
    /\ group = [exists |-> TRUE, hasMeta |-> TRUE, axes |-> r.axes,
                levels |-> [i \in 1..(r.level_count - first) |->
                               Descriptor(first + i - 1, arrays[first + i - 1].dims)],
                members |-> first..(r.level_count - 1)]

InitExport ==
    /\ \E ax \in AxisOrders : \E preserve \in BOOLEAN : \E first \in 0..(LevelCount - 1) :
          Converted([ImageOf(ax) EXCEPT !.level_count = LevelCount], preserve, first)
    /\ handle = [l \in AllLevels |-> NoHandle]
    /\ tasks = [l \in AllLevels |-> NoPool]
    /\ nwrites = [l \in AllLevels |-> <<>>]
    /\ InitCall
    /\ base_read = <<>>
    /\ slide = <<>>
    /\ level_min \in 0..LevelCount
    /\ xpc = "start"
    /\ xnext = 1
    /\ writer = <<>>
    /\ G = <<>>
    /\ group_dirs = <<>>
    /\ level_infos = <<>>
    /\ opc = "idle"
    /\ mapping = <<>>
    /\ mapped = <<>>

\* what from_tiledb leaves alone
stored == <<ingestion, G, group_dirs, level_infos, opc, mapping, mapped>>

RECURSIVE Sorted(_)
\* the numbers of a set in increasing order
Sorted(S) ==
    IF S = {} THEN <<>>
    ELSE LET least == CHOOSE x \in S : \A y \in S : x <= y
         IN  <<least>> \o Sorted(S \ {least})

\* TileDBOpenSlide(input_path): the levels of the group by level number, and
\* the axes of the original image
TileDBOpenSlide ==
    [levels |-> Sorted({l \in AllLevels : arrays[l].exists}), axes |-> group.axes]

\* slide.read_level(level, to_original_axes)
read_level(l, to_original_axes) ==
    LET image == [shape |-> DimShape(arrays[l].dims), data |-> arrays[l].cells]
    IN  IF to_original_axes
        THEN map_array(AxesMapper(DimNames(arrays[l].dims), slide.axes), image)
        ELSE image

NoImage == [shape |-> <<>>, data |-> <<>>]

\* a converter class without a writer: NotImplementedError
ExportNoWriter ==
    /\ xpc = "start"
    /\ xpc' = "failed"
    /\ UNCHANGED <<stored, slide, level_min, xnext, writer>>

\* slide = TileDBOpenSlide(input_path); writer = cls._ImageWriterType(output_path)
ExportOpen ==
    /\ xpc = "start"
    /\ slide' = TileDBOpenSlide
    /\ xpc' = "meta"
    /\ UNCHANGED <<stored, level_min, xnext, writer>>

\* writer.write_group_metadata(slide.properties)
ExportGroupMeta ==
    /\ xpc = "meta"
    /\ writer' = Append(writer, [op |-> "write_group_metadata", level |-> 0,
                                 image |-> NoImage])
    /\ xnext' = 1
    /\ xpc' = "levels"
    /\ UNCHANGED <<stored, slide, level_min>>

\* mutant: level_min itself is skipped as well
BelowMin_Inclusive(l) == l <= level_min

\* if level < level_min: continue
BelowMin(l) == l < level_min

ExportSkip ==
    /\ xpc = "levels"
    /\ xnext <= Len(slide.levels)
    /\ BelowMin(slide.levels[xnext])
    /\ xnext' = xnext + 1
    /\ UNCHANGED <<stored, slide, level_min, xpc, writer>>

\* the level is read in the original axes and handed to the writer
ExportLevel ==
    /\ xpc = "levels"
    /\ xnext <= Len(slide.levels)
    /\ ~BelowMin(slide.levels[xnext])
    /\ writer' = Append(writer, [op |-> "write_level_image",
                                 level |-> slide.levels[xnext],
                                 image |-> read_level(slide.levels[xnext], TRUE)])
    /\ xnext' = xnext + 1
    /\ UNCHANGED <<stored, slide, level_min, xpc>>

ExportDone ==
    /\ xpc = "levels"
    /\ xnext > Len(slide.levels)
    /\ xpc' = "done"
    /\ UNCHANGED <<stored, slide, level_min, xnext, writer>>

NextExport ==
    \/ ExportNoWriter
    \/ ExportOpen
    \/ ExportGroupMeta
    \/ ExportSkip
    \/ ExportLevel
    \/ ExportDone

SpecExport == InitExport /\ [][NextExport]_vars

(***************************************************************************)
(* tiledbimg.open_slide: TileDBOpenSlide.from_group_uri on a group holding *)
(* the level arrays l_0.tdb ... l_<n-1>.tdb.  A uri is the sequence of the *)
(* character codes of its file name.                                       *)
(***************************************************************************)
\* the most levels a group holds
MaxLevels == 11

RECURSIVE Digits(_)
\* str(n) for n >= 0, as character codes ("0" is 48)
Digits(n) == IF n < 10 THEN <<48 + n>> ELSE Digits(n \div 10) \o <<48 + (n % 10)>>

\* "l_<level>.tdb": l is 108, _ is 95, . is 46, t d b are 116 100 98
Uri(l) == <<108, 95>> \o Digits(l) \o <<46, 116, 100, 98>>

\* the shape of the stored array of a level: smaller from level to level
StoredShape(l) == <<2 * (MaxLevels - l), 3 * (MaxLevels - l), 3>>

\* the level whose array is stored at the uri
StoredAt(uri) == CHOOSE l \in 0..(MaxLevels - 1) : Uri(l) = uri

RECURSIVE StrLess(_, _)
\* str.__lt__: order by the first differing character, a proper prefix first
StrLess(a, b) ==
    IF a = <<>> THEN b # <<>>
    ELSE IF b = <<>> THEN FALSE
    ELSE IF a[1] # b[1] THEN a[1] < b[1]
    ELSE StrLess(Tail(a), Tail(b))

RECURSIVE SortedStr(_)
\* list.sort() of distinct strings
SortedStr(S) ==
    IF S = {} THEN <<>>
    ELSE LET least == CHOOSE x \in S : \A y \in S : x = y \/ StrLess(x, y)
         IN  <<least>> \o SortedStr(S \ {least})

\* group_dirs.sort()
sort(dirs) == SortedStr({dirs[i] : i \in 1..Len(dirs)})

RECURSIVE ToInt(_)
\* int() of a string of digits
ToInt(digits) ==
    IF digits = <<>> THEN 0
    ELSE 10 * ToInt(SubSeq(digits, 1, Len(digits) - 1)) + (digits[Len(digits)] - 48)

\* LevelInfo.parse_level: int(splitext(basename(s))[0].split("_")[-1])
parse_level(uri) ==
    LET dot   == CHOOSE i \in 1..Len(uri) :
                    uri[i] = 46 /\ \A j \in (i + 1)..Len(uri) : uri[j] # 46
        stem  == SubSeq(uri, 1, dot - 1)
        under == {i \in 1..Len(stem) : stem[i] = 95}
        last  == IF under = {} THEN 0 ELSE CHOOSE i \in under : \A j \in under : j <= i
    IN  ToInt(SubSeq(stem, last + 1, Len(stem)))

\* LevelInfo.from_array(path): level parsed from the name, schema of the array
LevelInfo_from_array(uri) ==
    [uri |-> uri, level |-> parse_level(uri), dimensions |-> StoredShape(StoredAt(uri))]

\* a group of n levels, listed from any member on, forwards or backwards
InitSlide ==
    /\ reader = [axes |-> <<"Y", "X", "C">>, level_count |-> LevelCount,
                 base |-> <<BaseY, BaseX, Channels>>]
    /\ group = NoGroup
    /\ arrays = [l \in AllLevels |-> NoArray]
    /\ handle = [l \in AllLevels |-> NoHandle]
    /\ tasks = [l \in AllLevels |-> NoPool]
    /\ nwrites = [l \in AllLevels |-> <<>>]
    /\ InitCall
    /\ base_read = <<>>
    /\ slide = <<>>
    /\ level_min = 0
    /\ xpc = "idle"
    /\ xnext = 1
    /\ writer = <<>>
    /\ \E n \in 1..MaxLevels : \E from \in 0..(n - 1) : \E forwards \in BOOLEAN :
          G = [i \in 1..n |->
                 Uri(IF forwards THEN (from + i - 1) % n ELSE (from + n - i) % n)]
    /\ group_dirs = <<>>
    /\ level_infos = <<>>
    /\ opc = "start"
    /\ mapping = <<>>
    /\ mapped = <<>>

\* what from_group_uri leaves alone
unopened == <<ingestion, level_min, xpc, xnext, writer, G, mapping, mapped>>

\* group_dirs = [g.uri for g in G]
SlideList ==
    /\ opc = "start"
    /\ group_dirs' = G
    /\ opc' = "sort"
    /\ UNCHANGED <<unopened, slide, level_infos>>

SlideSort ==
    /\ opc = "sort"
    /\ group_dirs' = sort(group_dirs)
    /\ opc' = "load"
    /\ UNCHANGED <<unopened, slide, level_infos>>

\* level_infos.append(LevelInfo.from_array(a_uri))
SlideLoad ==
    /\ opc = "load"
    /\ Len(level_infos) < Len(group_dirs)
    /\ level_infos' = Append(level_infos,
                             LevelInfo_from_array(group_dirs[Len(level_infos) + 1]))
    /\ UNCHANGED <<unopened, slide, group_dirs, opc>>

\* level_dimensions = schema.shape[:2] per level; the slide is returned
SlideReturn ==
    /\ opc = "load"
    /\ Len(level_infos) = Len(group_dirs)
    /\ slide' = [level_info |-> level_infos,
                 level_dimensions |-> [i \in 1..Len(level_infos) |->
                                          SubSeq(level_infos[i].dimensions, 1, 2)]]
    /\ opc' = "done"
    /\ UNCHANGED <<unopened, group_dirs, level_infos>>

NextSlide == SlideList \/ SlideSort \/ SlideLoad \/ SlideReturn

SpecSlide == InitSlide /\ [][NextSlide]_vars

(***************************************************************************)
(* Properties.                                                             *)
(***************************************************************************)
SourceLevels == 0..(reader.level_count - 1)

LevelsListed == {group.levels[i].level : i \in 1..Len(group.levels)}

\* C1: a call that repeats the arguments of a call that wrote level 0 and
\* failed with level 1 created but partial returns with every requested level
\* holding all of its tiles (the requested levels are then all source levels).
C1_ResumeCompletesLevels ==
    (pc = "idle" /\ outcome = "ok" /\ resuming) =>
        \A l \in SourceLevels : Complete(arrays[l])

\* C2: a level whose array exists when the loop reaches it is left as it was
\* by the call: from then on, until the call ends, no step creates the array
\* again, writes a cell of it or writes its metadata.
C2_ExistingLevelUntouched ==
    [][\A l \in AllLevels :
          (l \in skipped \/ (InLoop /\ level = l /\ arrays[l].exists)) =>
              (arrays'[l] = arrays[l] /\ nwrites'[l] = nwrites[l])]_vars

\* a call that skipped a level is about to write the group metadata
C2_Witness == pc = "groupmeta" /\ skipped # {}

\* C3: every descriptor of the group's persisted levels metadata refers to a
\* level array all of whose cells are written, and a call that failed has
\* written no group metadata.
C3_MetadataOnlyCompleteLevels ==
    /\ \A i \in 1..Len(group.levels) : Complete(arrays[group.levels[i].level])
    /\ Failed(outcome) => ~wroteMeta

\* the metadata lists a level while another level of the destination is partial
C3_Witness ==
    /\ group.hasMeta
    /\ group.levels # <<>>
    /\ \E l \in AllLevels : arrays[l].exists /\ ~Complete(arrays[l])
    /\ Failed(outcome)

\* C4: after a call that returned, the levels metadata lists one descriptor
\* for each level array of the destination group, in increasing level order.
C4_MetadataListsEveryLevel ==
    (pc = "idle" /\ outcome = "ok") =>
        /\ LevelsListed = group.members
        /\ \A i \in 1..Len(group.levels) : \A j \in 1..Len(group.levels) :
              i < j => group.levels[i].level < group.levels[j].level

\* C5: in the tile branch no tile is processed and no cell is written more
\* than once, and when the result loop is left normally (the handle is closed
\* and the level loop goes on) every tile has been processed once and every
\* cell of every tile written once.
C5_EachTileOnce ==
    [][/\ \A l \in AllLevels :
             /\ \A i \in 1..Len(tasks'[l].runs) : tasks'[l].runs[i] <= 1
             /\ \A c \in DOMAIN nwrites'[l] : nwrites'[l][c] <= 1
       /\ (pc = "ingest" /\ pc' = "loop") =>
             /\ handle[level].open /\ ~handle'[level].open
             /\ \A i \in 1..Len(tasks[level].st) :
                   /\ tasks[level].st[i] = "done"
                   /\ tasks[level].runs[i] = 1
                   /\ \A c \in TileCells(iter_tiles(arrays[level].dims)[i]) :
                         nwrites[level][c] = 1 /\ arrays[level].cells[c] # Fill]_vars

\* a pool has written all the tiles of a level and the result loop has
\* consumed every result
C5_Witness ==
    /\ pc = "ingest"
    /\ args.max_workers > 1
    /\ Len(tasks[level].st) > 2
    /\ ResultsConsumed

\* a worker starts a queued tile of level l in this step
Starts(l) ==
    \E i \in 1..Len(tasks[l].st) :
        /\ tasks[l].st[i] = "pending"
        /\ i \in 1..Len(tasks'[l].st)
        /\ tasks'[l].st[i] = "running"

C9_ValidationBeforeMutation ==
    (pc = "idle" /\ outcome = "NotImplementedError") => created = {}

\* C10: with chunked=False a level is filled by the whole-image branch, with
\* no tile tasks and no pool, whatever max_workers is.
C10_WorkersOnlyIfChunked ==
    (pc \in {"whole", "ingest"} /\ ~args.chunked) =>
        (pc = "whole" /\ tasks[level] = NoPool)

\* C7: for the domain of every level array, the tiles of iter_tiles lie in the
\* domain, are pairwise disjoint, cover every cell of the domain, and are
\* num_tiles many; and no cell is written by two tile tasks.
C7_TilesPartitionDomain ==
    \A l \in AllLevels : arrays[l].exists =>
        LET d  == arrays[l].dims
            ts == iter_tiles(d)
        IN  /\ num_tiles(d) = Len(ts)
            /\ \A i \in 1..Len(ts) : \A k \in 1..Len(d) :
                  0 <= ts[i][k][1] /\ ts[i][k][1] < ts[i][k][2] /\ ts[i][k][2] <= d[k].size
            /\ \A i \in 1..Len(ts) : \A j \in 1..Len(ts) :
                  i # j => TileCells(ts[i]) \cap TileCells(ts[j]) = {}
            /\ UNION {TileCells(ts[i]) : i \in 1..Len(ts)} = Coords(DimShape(d))
            /\ \A c \in DOMAIN nwrites[l] : nwrites[l][c] <= 1

\* two workers have written two tiles of a domain whose last tile is clipped
C7_Witness ==
    /\ pc = "ingest"
    /\ args.max_workers > 1
    /\ \E k \in 1..Len(arrays[level].dims) :
          arrays[level].dims[k].size % arrays[level].dims[k].tile # 0
    /\ \E i \in 1..Len(tasks[level].st) : \E j \in 1..Len(tasks[level].st) :
          i # j /\ tasks[level].st[i] = "done" /\ tasks[level].st[j] = "done"

C11_PyramidResumable ==
    [][(pc = "scale" /\ args.level_min \in skipped) =>
          /\ ~Failed(outcome')
          /\ outcome' = "ok" =>
                \A j \in 1..args.factors : arrays'[args.level_min + j].exists]_vars

\* the levels the running call has created
Made == {uris[i] : i \in 1..Len(uris)}

C14_PackedPixelSchema ==
    [][(InLoop /\ ~LevelAlreadyConverted(level) /\ args.pixel_depth > 1
            /\ (pc' # pc \/ level' # level)) =>
          /\ arrays'[level].exists
          /\ \A k \in 1..Len(arrays'[level].dims) : arrays'[level].dims[k].name # "C"
          /\ \E k \in 1..Len(arrays'[level].dims) :
                LET d == arrays'[level].dims[k]
                    x == level_shape(reader, level)[IndexOf(reader.axes, "X")]
                IN  /\ d.name = "X"
                    /\ d.size = args.pixel_depth * x
                    /\ d.tile = Min(max_tiles(args)["X"], d.size)]_vars

\* C18: a level on which metadata has been put, through the open handle or
\* persisted in the array, has all of its cells written.
C18_MetadataAfterData ==
    \A l \in AllLevels :
        (handle[l].meta # <<>> \/ arrays[l].meta # <<>>) => Complete(arrays[l])

\* C20: while the level loop runs, every level the call created before the one
\* it is filling has all of its cells written, its handle closed and no tile
\* task queued or running, and a level whose array does not exist has no tile
\* task at all.
C20_OneLevelAtATime ==
    pc \in {"loop", "whole", "ingest"} =>
        /\ \A i \in 1..Len(uris) :
              (i < Len(uris) \/ pc = "loop") =>
                  /\ Live(tasks[uris[i]]) = {}
                  /\ ~handle[uris[i]].open
                  /\ Complete(arrays[uris[i]])
        /\ \A l \in AllLevels : ~arrays[l].exists => tasks[l] = NoPool

\* level 1 is being filled by a pool after level 0 was filled by the same call
C20_Witness ==
    /\ pc = "ingest"
    /\ uris = <<0, 1>>
    /\ args.max_workers > 1
    /\ Cardinality(Running(1)) > 1

\* C19: the level read to produce the j-th generated level is the level
\* before it when progressive is true and the base level when it is false; it
\* is a level the call has already finished: it precedes the generated level in
\* uris and all of its cells are written.
C19_ScaleSource ==
    pc \in {"scale", "groupmeta"} =>
        /\ Len(base_read) = sidx
        /\ \A j \in 1..Len(base_read) :
              /\ base_read[j] = IF args.progressive THEN args.level_min + j - 1
                                ELSE args.level_min
              /\ \E i \in 1..j : uris[i] = base_read[j]
              /\ Complete(arrays[base_read[j]])

\* two levels have been generated progressively
C19_Witness ==
    /\ pc = "groupmeta"
    /\ args.progressive
    /\ base_read = <<0, 1>>

\* an unsigned integer of the given width holds every value of 0..m
Covers(width, m) ==
    CASE width = 8  -> m < 256
      [] width = 16 -> m < 65536
      [] width = 32 -> m \div 65536 < 65536
      [] OTHER      -> TRUE

\* C13: the index type of every dimension of a level array is the narrowest
\* of the 8, 16, 32 and 64 bit unsigned types that holds n - 1, for the n
\* cells of the array.
C13_NarrowestIndexType ==
    \A l \in AllLevels : arrays[l].exists =>
        LET n == Prod(DimShape(arrays[l].dims))
        IN  \A k \in 1..Len(arrays[l].dims) :
                LET width == arrays[l].dims[k].dtype
                IN  /\ width \in {8, 16, 32, 64}
                    /\ Covers(width, n - 1)
                    /\ \A w \in {8, 16, 32} : w < width => ~Covers(w, n - 1)

\* C15: mapping an array with a mapper and then with its inverted mapper
\* gives the array back, cell by cell, and mapping a tile with the mapper and
\* then with the inverted mapper gives the tile back; the array in between has
\* the mapped shape.
C15_MapperRoundTrip ==
    /\ Len(mapped) >= 1 =>
          mapped[1].image.shape =
              map_shape(AxesMapper(mapping.source, mapping.target), mapping.image.shape)
    /\ Len(mapped) = 2 =>
          /\ mapped[2].image = mapping.image
          /\ mapped[2].tile = mapping.tile

\* an array of rank 5 with unequal extents has gone through a mapper that is
\* not its own inverse, and back
C15_Witness ==
    /\ Len(mapped) = 2
    /\ Len(mapping.source) = 5
    /\ \E i, j \in 1..5 : mapping.image.shape[i] # mapping.image.shape[j]
    /\ LET m == AxesMapper(mapping.source, mapping.target)
       IN  \E i \in 1..5 : m.perm[m.perm[i]] # i
    /\ mapped[1].image # mapping.image

\* the stored levels from_tiledb is asked for, in the slide's order
Wanted == SelectSeq(Sorted({l \in AllLevels : arrays[l].exists}), LAMBDA l : l >= level_min)

C17_SlideLevelsInOrder ==
    opc = "done" =>
        /\ Len(slide.level_dimensions) = Len(G)
        /\ \A k \in 0..(Len(G) - 1) :
              /\ slide.level_info[k + 1].level = k
              /\ slide.level_dimensions[k + 1] = SubSeq(StoredShape(k), 1, 2)
        /\ SubSeq(slide.level_info[1].dimensions, 1, 2) = SubSeq(StoredShape(0), 1, 2)

====
